---- MODULE Spec2Model ----
(***************************************************************************)
(* dump_telegram_history.py: the start-up and the export loop of main(),   *)
(* its two sinks (JSONL stream, numbered batch files), download_with_retry *)
(* and maybe_rate_sleep.                                                   *)
(*                                                                         *)
(* Python values are typed as follows.  An optional value (None or v) is   *)
(* the empty tuple or the one-element tuple <<v>>.  Durations are whole    *)
(* numbers of half seconds (the default --retry-backoff 1.5 is 3).  A      *)
(* dict is a function from its keys; an exception is a record with its     *)
(* type name and its message text.                                         *)
(***************************************************************************)
EXTENDS Integers, Sequences, FiniteSets, TLC

VARIABLES
    args,            \* the parsed command line (argparse namespace)
    chat,            \* the number of messages in the chat; their ids are 1..chat
    count_ok,        \* whether client.get_messages(entity, limit=0) returns
    total,           \* main: total, the total handed to tqdm
    opened,          \* whether the JSONL file has been opened for writing
    steps,           \* history: the steps taken for msg
    pc,              \* position of main() in its loop
    msg,             \* the message the loop variable holds
    rec,             \* the dict built for msg
    ret,             \* what download_with_retry returned: <<fn, err>>
    attempt,         \* download_with_retry: attempt
    backoff,         \* download_with_retry: backoff
    f,               \* lines written to the JSONL file
    files,           \* batch files: sequence number -> list of entries
    batch,           \* main: batch
    batch_idx,       \* main: batch_idx
    written,         \* main: written
    pbar_n,          \* tqdm: pbar.n
    yielded,         \* history: the messages the iterator has yielded
    calls,           \* history: download_media calls made for msg
    floods,          \* history: FloodWaitErrors raised for msg
    errors,          \* history: other exceptions raised for msg
    sleeps,          \* history: the durations slept inside the fetch of msg, by cause
    fetched,         \* history: ids for which download_with_retry was called
    per_msg_sleeps,  \* history: number of sleep_per_msg sleeps
    interval_sleeps, \* history: values of written at which sleep_seconds was slept
    writes           \* history: sequence numbers passed to write_batch

vars == <<args, chat, count_ok, total, opened, steps, pc, msg, rec, ret, attempt, backoff, f, files, batch, batch_idx,
          written, pbar_n, yielded, calls, floods, errors, sleeps, fetched,
          per_msg_sleeps, interval_sleeps, writes>>

----------------------------------------------------------------------------
(* Bounds of the model *)

\* the iterator yields at most MaxN messages
MaxN == 3
\* --batch-size ranges over 0..MaxBatch (and absent)
MaxBatch == 2
\* --max-retries ranges over -1..MaxRetries
MaxRetries == 2
\* at most MaxFloods FloodWaitErrors per download_with_retry call
MaxFloods == 3
\* --sleep-every ranges over -1..MaxEvery
MaxEvery == 2
\* --limit ranges over 1..MaxLimit (and absent)
MaxLimit == 2

----------------------------------------------------------------------------
(* Python values *)

None == <<>>

Some(v) == <<v>>

\* bool(x) of an optional string: None and "" are falsy
Truthy(x) == x # None /\ x[1] # ""

Max(a, b) == IF a >= b THEN a ELSE b

Min(a, b) == IF a <= b THEN a ELSE b

\* str(fn) of what download_media returned: a path, or None
Str(x) == IF x = None THEN "None" ELSE x[1]

\* repr(e) of an exception: the type name and the quoted message, never empty
Repr(e) == e.type \o "(" \o (IF e.text = "" THEN "" ELSE "'" \o e.text \o "'") \o ")"

\* getattr(msg, "id", None)
GetId(m) == IF "id" \in DOMAIN m THEN Some(m.id) ELSE None

----------------------------------------------------------------------------
(* The environment: command lines, messages, download outcomes *)

BatchSizes == {None} \cup {Some(b) : b \in 0..MaxBatch}

\* argparse defaults, in half seconds where they are durations
DefaultSleepPerMsg == 0
DefaultSleepEvery == 0
DefaultSleepSeconds == 0
DefaultMaxRetries == 3
DefaultRetryBackoff == 3

\* command lines that set the media and retry options and leave the rest
\* alone; a negative backoff is paired with the largest retry budget only
FetchArgs ==
    {a \in [batch_size    : {None, Some(MaxBatch)},
            media_dir     : BOOLEAN,
            max_retries   : -1..MaxRetries,
            retry_backoff : {-1, DefaultRetryBackoff},
            sleep_per_msg : {DefaultSleepPerMsg},
            sleep_every   : {DefaultSleepEvery},
            sleep_seconds : {DefaultSleepSeconds},
            reverse       : {FALSE},
            limit         : {None}] :
        a.retry_backoff = DefaultRetryBackoff \/ a.max_retries = MaxRetries}

\* command lines that set the batch size and leave the rest alone
BatchArgs ==
    [batch_size    : BatchSizes,
     media_dir     : {FALSE},
     max_retries   : {DefaultMaxRetries},
     retry_backoff : {DefaultRetryBackoff},
     sleep_per_msg : {DefaultSleepPerMsg},
     sleep_every   : {DefaultSleepEvery},
     sleep_seconds : {DefaultSleepSeconds},
     reverse       : {FALSE},
     limit         : {None}]

\* command lines that set the pacing options and leave the rest alone
PacingArgs ==
    [batch_size    : {None, Some(MaxBatch)},
     media_dir     : {FALSE},
     max_retries   : {DefaultMaxRetries},
     retry_backoff : {DefaultRetryBackoff},
     sleep_per_msg : {0, 1},
     sleep_every   : -1..MaxEvery,
     sleep_seconds : {0, 2},
     reverse       : {FALSE},
     limit         : {None}]

\* command lines that set the direction and the limit and leave the rest alone
TraversalArgs ==
    [batch_size    : {None, Some(MaxBatch)},
     media_dir     : {FALSE},
     max_retries   : {DefaultMaxRetries},
     retry_backoff : {DefaultRetryBackoff},
     sleep_per_msg : {DefaultSleepPerMsg},
     sleep_every   : {DefaultSleepEvery},
     sleep_seconds : {DefaultSleepSeconds},
     reverse       : BOOLEAN,
     limit         : {None} \cup {Some(l) : l \in 1..MaxLimit}]

Args == FetchArgs \cup BatchArgs \cup PacingArgs \cup TraversalArgs

\* a run: a command line, a chat, and whether the message count is available
Scenarios ==
    [args : FetchArgs \cup BatchArgs \cup PacingArgs, chat : 0..MaxN, count_ok : {TRUE}]
    \cup [args : TraversalArgs, chat : 0..MaxN, count_ok : BOOLEAN]

\* client.iter_messages(entity, reverse, limit) on a chat of n messages: the
\* ids newest first, or oldest first with reverse, cut after limit messages
iter_messages(n, reverse, limit) ==
    LET all == IF reverse THEN [k \in 1..n |-> k] ELSE [k \in 1..n |-> n + 1 - k]
        m   == IF limit = None THEN n ELSE Min(n, limit[1])
    IN  SubSeq(all, 1, m)

\* mutation: the direction flag is not passed on to the iterator
itNoReverse == iter_messages(chat, FALSE, args.limit)

\* the traversal of this run
it == iter_messages(chat, args.reverse, args.limit)

\* the message with the given id; raises: to_serializable(msg) raises
Messages(id) == [id : {id}, media : BOOLEAN, raises : BOOLEAN]

\* what msg.download_media returns on success
DownloadResults == {Some("media/photo.jpg"), None}

FloodWaitErrors == {[type |-> "FloodWaitError", seconds |-> 2]}

DownloadErrors == {[type |-> "OSError", text |-> ""]}

NormalizeError == [type |-> "AttributeError", text |-> "date"]

----------------------------------------------------------------------------
(* Pure helpers of main() *)

\* to_serializable(msg): the flattened record.  Only the fields an operation
\* of the loop reads or that identify the record are kept.
to_serializable(m) == [id |-> Some(m.id), media |-> m.media]

\* mutation: the except clause does not recover the id
PlaceholderNoId(m, e) == [id |-> None, error |-> Repr(e)]

\* the placeholder written by the except clause of the loop
Placeholder(m, e) == [id |-> GetId(m), error |-> Repr(e)]

\* batching = isinstance(args.batch_size, int) and args.batch_size > 0
batching == args.batch_size # None /\ args.batch_size[1] > 0

\* write_batch(records, idx): open <stem>_part<idx>.json with "w", dump the list
write_batch(records, idx) == (idx :> records) @@ files

\* if media_dir and getattr(msg, "media", None)
WantsMedia(m) == args.media_dir /\ m.media

\* mutation: the budget check is off by one
RetriesExhaustedEarly(a) == a >= Max(0, args.max_retries)

\* if attempt > max(0, args.max_retries)
RetriesExhausted(a) == a > Max(0, args.max_retries)

\* mutation: the backoff is not doubled
NextBackoffSame(b) == b

\* backoff = backoff * 2 if backoff > 0 else 0
NextBackoff(b) == IF b > 0 THEN b * 2 ELSE 0

\* await asyncio.sleep(e.seconds + 1)
FloodSleep(e) == e.seconds + 1

\* mutation: the path is returned without str()
ReturnPathRaw(fn) == <<fn, None>>

\* return str(fn), None
ReturnPath(fn) == <<Some(Str(fn)), None>>

\* return None, repr(e)
ReturnError(e) == <<None, Some(Repr(e))>>

\* if fn: rec["media_path"] = fn; if err: rec["media_error"] = err
Annotated(r, fn, err) ==
    LET r1 == IF Truthy(fn) THEN ("media_path" :> fn[1]) @@ r ELSE r
    IN  IF Truthy(err) THEN ("media_error" :> err[1]) @@ r1 ELSE r1

\* mutation: the batch is flushed one entry late
BatchFullStrict(b) == Len(b) > args.batch_size[1]

\* if len(batch) >= args.batch_size
BatchFull(b) == Len(b) >= args.batch_size[1]

\* no await asyncio.sleep(...) of download_with_retry has run yet
NoSleeps == [backoff |-> <<>>, flood |-> <<>>]

\* if args.sleep_per_msg and args.sleep_per_msg > 0
PerMsgSleepDue == args.sleep_per_msg # 0 /\ args.sleep_per_msg > 0

\* mutation: the count tested is the one before the current record
IntervalSleepDuePrior(w) ==
    /\ args.sleep_every # 0 /\ args.sleep_every > 0
    /\ args.sleep_seconds # 0 /\ args.sleep_seconds > 0
    /\ w - 1 > 0 /\ ((w - 1) % args.sleep_every) = 0

\* mutation: the interval delay itself is not tested
IntervalSleepDueAnySeconds(w) ==
    /\ args.sleep_every # 0 /\ args.sleep_every > 0
    /\ w > 0 /\ (w % args.sleep_every) = 0

\* if args.sleep_every and args.sleep_every > 0 and args.sleep_seconds and
\* args.sleep_seconds > 0: if written > 0 and (written % args.sleep_every) == 0
IntervalSleepDue(w) ==
    /\ args.sleep_every # 0 /\ args.sleep_every > 0
    /\ args.sleep_seconds # 0 /\ args.sleep_seconds > 0
    /\ w > 0 /\ (w % args.sleep_every) = 0

\* mutation: a configured limit replaces the count instead of clamping it
ProgressTotalLimitWins(count, limit) == IF limit # None THEN limit ELSE count

\* total = (await client.get_messages(entity, limit=0)).total, None if that
\* raises; then clamped to args.limit, or replaced by it when unknown
ProgressTotal(count, limit) ==
    IF limit # None
       THEN IF count # None THEN Some(Min(count[1], limit[1])) ELSE limit
       ELSE count

----------------------------------------------------------------------------
(* The state when main() has parsed the command line *)

Init ==
    /\ \E s \in Scenarios :
          /\ args = s.args
          /\ chat = s.chat
          /\ count_ok = s.count_ok
    /\ total = None
    /\ opened = FALSE
    /\ steps = <<>>
    /\ pc = "start"
    /\ msg = None
    /\ rec = None
    /\ ret = <<None, None>>
    /\ attempt = 0
    /\ backoff = 0
    /\ f = <<>>
    /\ files = <<>>
    /\ batch = <<>>
    /\ batch_idx = 1
    /\ written = 0
    /\ pbar_n = 0
    /\ yielded = <<>>
    /\ calls = 0
    /\ floods = 0
    /\ errors = 0
    /\ sleeps = NoSleeps
    /\ fetched = <<>>
    /\ per_msg_sleeps = 0
    /\ interval_sleeps = <<>>
    /\ writes = <<>>

sink == <<f, files, batch, batch_idx, writes>>

fetcher == <<ret, attempt, backoff, calls, floods, errors, sleeps>>

pacing == <<per_msg_sleeps, interval_sleeps>>

setup == <<args, chat, count_ok, total, opened>>

loop == <<msg, rec, written, pbar_n, yielded, fetched>>

----------------------------------------------------------------------------
(* The start-up of main() *)

\* await client.start(...) returns
ClientStart ==
    /\ pc = "start"
    /\ pc' = "entity"
    /\ UNCHANGED <<setup, steps, loop, sink, fetcher, pacing>>

\* entity = await client.get_entity(args.chat) returns
GetEntity ==
    /\ pc = "entity"
    /\ pc' = "prepare"
    /\ UNCHANGED <<setup, steps, loop, sink, fetcher, pacing>>

\* prepare the outputs, compute total, create the iterator and the progress
\* bar; in streaming mode open the JSONL file
Prepare ==
    /\ pc = "prepare"
    /\ total' = ProgressTotal(IF count_ok THEN Some(chat) ELSE None, args.limit)
    /\ opened' = ~batching
    /\ pc' = "iter"
    /\ UNCHANGED <<args, chat, count_ok, steps, loop, sink, fetcher, pacing>>

----------------------------------------------------------------------------
(* The loop of main(): one action per step of the loop body *)

\* the next message is requested while the pacing of the current one is pending
IterNextEarly ==
    /\ pc \in {"iter", "pace"}
    /\ Len(yielded) < Len(it)
    /\ \E m \in Messages(it[Len(yielded) + 1]) :
          /\ msg' = m
          /\ yielded' = Append(yielded, m)
    /\ steps' = <<"next">>
    /\ pc' = "normalize"
    /\ UNCHANGED <<setup, rec, written, pbar_n, fetched, sink, fetcher, pacing>>

\* async for msg in it: the iterator yields the next message
IterNext ==
    /\ pc = "iter"
    /\ Len(yielded) < Len(it)
    /\ \E m \in Messages(it[Len(yielded) + 1]) :
          /\ msg' = m
          /\ yielded' = Append(yielded, m)
    /\ steps' = <<"next">>
    /\ pc' = "normalize"
    /\ UNCHANGED <<setup, rec, written, pbar_n, fetched, sink, fetcher, pacing>>

\* rec = to_serializable(msg) returns
Normalize ==
    /\ pc = "normalize"
    /\ steps' = Append(steps, "normalize")
    /\ ~msg.raises
    /\ rec' = to_serializable(msg)
    /\ pc' = "media"
    /\ UNCHANGED <<setup, msg, written, pbar_n, yielded, fetched, sink, fetcher, pacing>>

\* to_serializable(msg) raises: the except clause appends the placeholder
NormalizeRaises ==
    /\ pc = "normalize"
    /\ steps' = steps \o <<"normalize", "sink">>
    /\ msg.raises
    /\ IF batching
          THEN /\ batch' = Append(batch, Placeholder(msg, NormalizeError))
               /\ f' = f
          ELSE /\ f' = Append(f, Placeholder(msg, NormalizeError))
               /\ batch' = batch
    /\ pc' = "count"
    /\ UNCHANGED <<setup, msg, rec, written, pbar_n, yielded, fetched, files,
                   batch_idx, writes, fetcher, pacing>>

\* mutation: the fetch of a record starts from the retry state left behind
MediaCheckStaleRetryState ==
    /\ pc = "media"
    /\ steps' = IF WantsMedia(msg) THEN Append(steps, "fetch") ELSE steps
    /\ IF WantsMedia(msg)
          THEN /\ fetched' = Append(fetched, msg.id)
               /\ pc' = "download"
          ELSE /\ pc' = "emit"
               /\ fetched' = fetched
    /\ UNCHANGED <<setup, msg, rec, written, pbar_n, yielded, sink, ret, attempt,
                   backoff, calls, floods, errors, sleeps, pacing>>

\* if media_dir and msg.media: enter download_with_retry(msg)
MediaCheck ==
    /\ pc = "media"
    /\ steps' = IF WantsMedia(msg) THEN Append(steps, "fetch") ELSE steps
    /\ IF WantsMedia(msg)
          THEN /\ fetched' = Append(fetched, msg.id)
               /\ IF ~args.media_dir
                     THEN /\ ret' = <<None, None>>
                          /\ pc' = "annotate"
                          /\ UNCHANGED <<attempt, backoff>>
                     ELSE /\ attempt' = 0
                          /\ backoff' = Max(0, args.retry_backoff)
                          /\ pc' = "download"
                          /\ ret' = ret
          ELSE /\ pc' = "emit"
               /\ UNCHANGED <<fetched, ret, attempt, backoff>>
    /\ UNCHANGED <<setup, msg, rec, written, pbar_n, yielded, sink, calls, floods,
                   errors, sleeps, pacing>>

\* fn = await msg.download_media(media_dir) returns
DownloadOk ==
    /\ pc = "download"
    /\ steps' = steps
    /\ \E fn \in DownloadResults : ret' = ReturnPath(fn)
    /\ calls' = calls + 1
    /\ pc' = "annotate"
    /\ UNCHANGED <<setup, msg, rec, written, pbar_n, yielded, fetched, sink,
                   attempt, backoff, floods, errors, sleeps, pacing>>

\* mutation: a FloodWaitError counts as an attempt
DownloadFloodCounted ==
    /\ pc = "download"
    /\ steps' = steps
    /\ floods < MaxFloods
    /\ \E e \in FloodWaitErrors : sleeps' = [sleeps EXCEPT !.flood = Append(@, FloodSleep(e))]
    /\ calls' = calls + 1
    /\ floods' = floods + 1
    /\ attempt' = attempt + 1
    /\ IF RetriesExhausted(attempt')
          THEN /\ ret' = <<None, Some("FloodWaitError()")>>
               /\ pc' = "annotate"
          ELSE /\ pc' = "download"
               /\ ret' = ret
    /\ UNCHANGED <<setup, msg, rec, written, pbar_n, yielded, fetched, sink,
                   backoff, errors, pacing>>

\* download_media raises FloodWaitError: sleep, no attempt increment
DownloadFlood ==
    /\ pc = "download"
    /\ steps' = steps
    /\ floods < MaxFloods
    /\ \E e \in FloodWaitErrors : sleeps' = [sleeps EXCEPT !.flood = Append(@, FloodSleep(e))]
    /\ calls' = calls + 1
    /\ floods' = floods + 1
    /\ pc' = "download"
    /\ UNCHANGED <<setup, msg, rec, written, pbar_n, yielded, fetched, sink,
                   ret, attempt, backoff, errors, pacing>>

\* download_media raises any other Exception
DownloadError ==
    /\ pc = "download"
    /\ steps' = steps
    /\ calls' = calls + 1
    /\ errors' = errors + 1
    /\ attempt' = attempt + 1
    /\ \E e \in DownloadErrors :
          IF RetriesExhausted(attempt')
             THEN /\ ret' = ReturnError(e)
                  /\ pc' = "annotate"
                  /\ UNCHANGED <<backoff, sleeps>>
             ELSE /\ sleeps' = [sleeps EXCEPT !.backoff = Append(@, backoff)]
                  /\ backoff' = NextBackoff(backoff)
                  /\ pc' = "download"
                  /\ ret' = ret
    /\ UNCHANGED <<setup, msg, rec, written, pbar_n, yielded, fetched, sink,
                   floods, pacing>>

\* fn, err = ...; attach media_path / media_error; the call's frame is gone
Annotate ==
    /\ pc = "annotate"
    /\ steps' = steps
    /\ rec' = Annotated(rec, ret[1], ret[2])
    /\ attempt' = 0
    /\ backoff' = 0
    /\ calls' = 0
    /\ floods' = 0
    /\ errors' = 0
    /\ sleeps' = NoSleeps
    /\ pc' = "emit"
    /\ UNCHANGED <<setup, msg, ret, written, pbar_n, yielded, fetched, sink, pacing>>

\* mutation: the entry is put in front of the ones already there
EmitFront ==
    /\ pc = "emit"
    /\ steps' = Append(steps, "sink")
    /\ IF batching
          THEN /\ batch' = <<rec>> \o batch
               /\ f' = f
          ELSE /\ f' = <<rec>> \o f
               /\ batch' = batch
    /\ pc' = "count"
    /\ UNCHANGED <<setup, msg, rec, written, pbar_n, yielded, fetched, files,
                   batch_idx, writes, fetcher, pacing>>

\* f.write(json.dumps(rec) + "\n")  /  batch.append(rec)
Emit ==
    /\ pc = "emit"
    /\ steps' = Append(steps, "sink")
    /\ IF batching
          THEN /\ batch' = Append(batch, rec)
               /\ f' = f
          ELSE /\ f' = Append(f, rec)
               /\ batch' = batch
    /\ pc' = "count"
    /\ UNCHANGED <<setup, msg, rec, written, pbar_n, yielded, fetched, files,
                   batch_idx, writes, fetcher, pacing>>

\* mutation: the batch index is not advanced after a flush
CountSameIdx ==
    /\ pc = "count"
    /\ steps' = Append(steps, "count")
    /\ written' = written + 1
    /\ IF batching /\ BatchFull(batch)
          THEN /\ files' = write_batch(batch, batch_idx)
               /\ writes' = Append(writes, batch_idx)
               /\ batch' = <<>>
          ELSE UNCHANGED <<files, writes, batch>>
    /\ batch_idx' = batch_idx
    /\ pbar_n' = pbar_n + 1
    /\ pc' = "pace"
    /\ UNCHANGED <<setup, msg, rec, yielded, fetched, f, fetcher, pacing>>

\* written += 1; in batch mode flush a full batch; pbar.update(1)
Count ==
    /\ pc = "count"
    /\ steps' = Append(steps, "count")
    /\ written' = written + 1
    /\ IF batching /\ BatchFull(batch)
          THEN /\ files' = write_batch(batch, batch_idx)
               /\ writes' = Append(writes, batch_idx)
               /\ batch_idx' = batch_idx + 1
               /\ batch' = <<>>
          ELSE UNCHANGED <<files, writes, batch_idx, batch>>
    /\ pbar_n' = pbar_n + 1
    /\ pc' = "pace"
    /\ UNCHANGED <<setup, msg, rec, yielded, fetched, f, fetcher, pacing>>

\* await maybe_rate_sleep()
maybe_rate_sleep ==
    /\ pc = "pace"
    /\ steps' = Append(steps, "pace")
    /\ per_msg_sleeps' = IF PerMsgSleepDue THEN per_msg_sleeps + 1 ELSE per_msg_sleeps
    /\ interval_sleeps' = IF IntervalSleepDue(written)
                             THEN Append(interval_sleeps, written)
                             ELSE interval_sleeps
    /\ pc' = "iter"
    /\ UNCHANGED <<setup, msg, rec, written, pbar_n, yielded, fetched, sink, fetcher>>

\* mutation: the partial batch is not flushed at the end
IterStopNoFlush ==
    /\ pc = "iter"
    /\ Len(yielded) = Len(it)
    /\ steps' = steps
    /\ pc' = "done"
    /\ UNCHANGED <<setup, msg, rec, written, pbar_n, yielded, fetched, sink,
                   fetcher, pacing>>

\* mutation: the final flush does not test whether the batch is empty
IterStopAlwaysFlush ==
    /\ pc = "iter"
    /\ Len(yielded) = Len(it)
    /\ steps' = steps
    /\ IF batching
          THEN /\ files' = write_batch(batch, batch_idx)
               /\ writes' = Append(writes, batch_idx)
          ELSE UNCHANGED <<files, writes>>
    /\ pc' = "done"
    /\ UNCHANGED <<setup, msg, rec, written, pbar_n, yielded, fetched, f, batch,
                   batch_idx, fetcher, pacing>>

\* mutation: the loop may end before the iterator is exhausted
IterStopEarly ==
    /\ pc = "iter"
    /\ Len(yielded) <= Len(it)
    /\ steps' = steps
    /\ IF batching /\ batch # <<>>
          THEN /\ files' = write_batch(batch, batch_idx)
               /\ writes' = Append(writes, batch_idx)
          ELSE UNCHANGED <<files, writes>>
    /\ pc' = "done"
    /\ UNCHANGED <<setup, msg, rec, written, pbar_n, yielded, fetched, f, batch,
                   batch_idx, fetcher, pacing>>

\* the iterator is exhausted: flush the partial batch, pbar.close(), summary
IterStop ==
    /\ pc = "iter"
    /\ Len(yielded) = Len(it)
    /\ steps' = steps
    /\ IF batching /\ batch # <<>>
          THEN /\ files' = write_batch(batch, batch_idx)
               /\ writes' = Append(writes, batch_idx)
          ELSE UNCHANGED <<files, writes>>
    /\ pc' = "done"
    /\ UNCHANGED <<setup, msg, rec, written, pbar_n, yielded, fetched, f, batch,
                   batch_idx, fetcher, pacing>>

Next ==
    \/ ClientStart
    \/ GetEntity
    \/ Prepare
    \/ IterNext
    \/ Normalize
    \/ NormalizeRaises
    \/ MediaCheck
    \/ DownloadOk
    \/ DownloadFlood
    \/ DownloadError
    \/ Annotate
    \/ Emit
    \/ Count
    \/ maybe_rate_sleep
    \/ IterStop

Spec == Init /\ [][Next]_vars

\* The single task always gets on: an awaited call returns or raises and a
\* sleep ends.  The number of FloodWaitErrors one download receives is finite
\* (at most MaxFloods, by the guard of DownloadFlood).
FairSpec == Spec /\ WF_vars(Next)

----------------------------------------------------------------------------
(* Runs that are cut short: an exception no clause of main() catches leaves  *)
(* main(); in streaming mode the with statement closes the JSONL file.  A    *)
(* signal that ends the process closes nothing.                              *)

\* mutation: the JSONL file is opened before the login
ClientStartFailsAfterOpen ==
    /\ pc = "start"
    /\ opened' = TRUE
    /\ pc' = "fatal"
    /\ UNCHANGED <<args, chat, count_ok, total, steps, loop, sink, fetcher, pacing>>

\* await client.start(...) raises: the login failed
ClientStartFails ==
    /\ pc = "start"
    /\ pc' = "fatal"
    /\ UNCHANGED <<setup, steps, loop, sink, fetcher, pacing>>

\* await client.get_entity(args.chat) raises: the chat cannot be resolved
GetEntityFails ==
    /\ pc = "entity"
    /\ pc' = "fatal"
    /\ UNCHANGED <<setup, steps, loop, sink, fetcher, pacing>>

\* async for msg in it: the iterator raises (a FloodWaitError above the
\* threshold, a connection error); the flush after the loop is not reached
IterRaises ==
    /\ pc = "iter"
    /\ pc' = "failed"
    /\ UNCHANGED <<setup, steps, loop, sink, fetcher, pacing>>

\* main() is suspended in an await that can be cancelled
Suspended ==
    \/ pc \in {"iter", "download"}
    \/ pc = "pace" /\ (PerMsgSleepDue \/ IntervalSleepDue(written))

\* the task is cancelled while suspended: CancelledError is no Exception, so
\* neither except clause catches it
Interrupt ==
    /\ Suspended
    /\ pc' = "cancelled"
    /\ UNCHANGED <<setup, steps, loop, sink, fetcher, pacing>>

\* the process is ended by a signal it does not handle (SIGTERM, SIGKILL)
\* while the task is suspended: nothing is unwound, so the lines that
\* f.write left in the buffer of the file object (opened with the default
\* buffering and never flushed) do not reach the file; how many lines did is
\* up to the buffer.  The batch files were closed by write_batch.
Kill ==
    /\ Suspended
    /\ pc' = "killed"
    /\ \E n \in 0..Len(f) : f' = SubSeq(f, 1, n)
    /\ UNCHANGED <<setup, steps, loop, files, batch, batch_idx, writes, fetcher, pacing>>

NextAbort ==
    \/ Next
    \/ ClientStartFails
    \/ GetEntityFails
    \/ IterRaises
    \/ Interrupt
    \/ Kill

SpecAbort == Init /\ [][NextAbort]_vars

----------------------------------------------------------------------------
(* What the run has produced *)

SetMax(S) == CHOOSE m \in S : \A x \in S : x <= m

RECURSIVE ConcatFiles(_)
\* the entries of the batch files numbered in S, in sequence-number order
ConcatFiles(S) ==
    IF S = {} THEN <<>>
    ELSE LET m == SetMax(S) IN ConcatFiles(S \ {m}) \o files[m]

\* the durable output: the lines of the JSONL file, or the batch files in order
Output == IF batching THEN ConcatFiles(DOMAIN files) ELSE f

\* every entry handed to the sink so far, flushed or still in the batch list
Sunk == IF batching /\ pc # "done" THEN Output \o batch ELSE Output

Range(q) == {q[i] : i \in DOMAIN q}

Ceil(n, b) == (n + b - 1) \div b

IsPlaceholder(e) == DOMAIN e = {"id", "error"}

\* the run is at the top of the loop or finished: no record is in flight
AtRest == pc \in {"iter", "done"}

----------------------------------------------------------------------------
(* C1 - C4: the sink *)

\* C1: when the run completes, the output (lines of the stream, or entries
\* over all batch files) has exactly as many entries as the source yielded
\* records, and every yielded record has exactly one entry, whichever records
\* failed to normalise or ended in a terminal media failure.
C1_ExactlyN ==
    pc = "done" =>
        LET out == Output IN
        /\ Len(out) = Len(yielded)
        /\ \A m \in Range(yielded) :
              Cardinality({i \in DOMAIN out : out[i].id = Some(m.id)}) = 1

\* a completed batch run of three records, one a placeholder and one with a
\* terminal media failure
C1_Witness ==
    /\ pc = "done"
    /\ batching
    /\ Len(yielded) = 3
    /\ \E i \in DOMAIN Output : IsPlaceholder(Output[i])
    /\ \E i \in DOMAIN Output : "media_error" \in DOMAIN Output[i]

\* C2: at every moment the i-th entry handed to the sink (the i-th line, or
\* the i-th entry of the batch files taken in sequence-number order followed
\* by the pending batch) is the record or placeholder of the i-th record the
\* source yielded; at completion this covers every yielded record.
C2_SourceOrder ==
    LET sunk == Sunk IN
    /\ Len(sunk) <= Len(yielded)
    /\ \A i \in DOMAIN sunk :
          /\ sunk[i].id = Some(yielded[i].id)
          /\ IsPlaceholder(sunk[i]) <=> yielded[i].raises
          /\ ~IsPlaceholder(sunk[i]) => sunk[i].media = yielded[i].media
    /\ pc = "done" => DOMAIN sunk = DOMAIN yielded

\* a completed batch run over two files whose second record ended in a
\* terminal media failure and whose third record was downloaded
C2_Witness ==
    /\ pc = "done"
    /\ batching
    /\ Cardinality(DOMAIN files) >= 2
    /\ Len(yielded) = 3
    /\ "media_error" \in DOMAIN Output[2]
    /\ "media_path" \in DOMAIN Output[3]

\* C3: a completed batch run of N records with batch size B has written
\* exactly ceil(N/B) batch files, numbered 1..ceil(N/B), each by one write.
C3_BatchFileCount ==
    (pc = "done" /\ batching) =>
        LET n == Ceil(Len(yielded), args.batch_size[1]) IN
        /\ DOMAIN files = 1..n
        /\ writes = [k \in 1..n |-> k]

\* B = 2 and N = 3: two files
C3_Witness ==
    /\ pc = "done"
    /\ batching
    /\ args.batch_size[1] = 2
    /\ Len(yielded) = 3
    /\ DOMAIN files = {1, 2}

\* C4: in batch mode no batch file is empty or longer than B, every file but
\* the one with the highest number has exactly B entries, and a file shorter
\* than B exists only once the source is exhausted.
C4_BatchFileSizes ==
    batching =>
        \A k \in DOMAIN files :
            /\ Len(files[k]) >= 1
            /\ Len(files[k]) <= args.batch_size[1]
            /\ k < SetMax(DOMAIN files) => Len(files[k]) = args.batch_size[1]
            /\ Len(files[k]) < args.batch_size[1] => pc = "done"

\* B = 2 and N = 3: a full file followed by a partial one
C4_Witness ==
    /\ pc = "done"
    /\ batching
    /\ args.batch_size[1] = 2
    /\ DOMAIN files = {1, 2}
    /\ Len(files[1]) = 2
    /\ Len(files[2]) = 1

----------------------------------------------------------------------------
(* C5, C6, C9: download_with_retry *)

\* the retry budget: max(0, args.max_retries)
Budget == Max(0, args.max_retries)

\* download_with_retry is running or has just returned to the loop
InFetch == pc \in {"download", "annotate"}

\* the call returned (None, repr(e)) for one of the errors download_media raises
TerminalFailure ==
    /\ pc = "annotate"
    /\ ret[1] = None
    /\ ret[2] \in {Some(Repr(e)) : e \in DownloadErrors}

\* the call returned (str(fn), None)
Success ==
    /\ pc = "annotate"
    /\ ret[1] # None
    /\ ret[2] = None

\* C5: with max retries R >= 0, while every download attempt so far raised a
\* non-throttling error, the fetcher is still retrying after at most R
\* attempts and has returned only after exactly R + 1 attempts, and then with
\* no path and the description of the error.
C5_AllErrorsAttempts ==
    (InFetch /\ args.max_retries >= 0 /\ floods = 0 /\ errors = calls) =>
        /\ pc = "download" => calls <= args.max_retries
        /\ pc = "annotate" => calls = args.max_retries + 1 /\ TerminalFailure

\* R = 1: two failed attempts, then the terminal failure
C5_Witness ==
    /\ args.max_retries = 1
    /\ floods = 0
    /\ errors = 2
    /\ calls = 2
    /\ TerminalFailure

\* C6: inside the fetcher the attempt counter equals the number of
\* non-throttling errors seen, whatever throttling signals came in between;
\* the fetcher keeps retrying while that number is at most the budget R and
\* returns the terminal failure exactly when it is R + 1; an attempt that
\* succeeds after any number of throttling signals returns success.
C6_ThrottleNotCounted ==
    InFetch =>
        /\ attempt = errors
        /\ calls >= errors + floods
        /\ pc = "download" => errors <= Budget /\ calls = errors + floods
        /\ TerminalFailure <=> (pc = "annotate" /\ errors = Budget + 1
                                /\ calls = errors + floods)
        /\ Success <=> (pc = "annotate" /\ calls = errors + floods + 1)

\* as many throttling signals as the model allows and no error, then success
\* with the attempt counter still 0
C6_Witness ==
    /\ Success
    /\ floods = MaxFloods
    /\ floods >= 3
    /\ errors = 0
    /\ attempt = 0
    /\ calls = MaxFloods + 1

\* the fetcher was called for the i-th yielded record
Fetched(i) == yielded[i].id \in Range(fetched)

HasPath(e) == "media_path" \in DOMAIN e

HasError(e) == "media_error" \in DOMAIN e

\* C9: the fetcher is called exactly for the records that normalised, have
\* media and a media directory; it returns exactly one of a path and a failure
\* reason; the entry handed to the sink for such a record has exactly one of
\* media_path and media_error, and every other entry has neither.
C9_MediaOutcomeExclusive ==
    /\ pc = "annotate" => (ret[1] # None) # (ret[2] # None)
    /\ \A i \in DOMAIN yielded :
          Fetched(i) <=> (args.media_dir /\ yielded[i].media /\ ~yielded[i].raises
                          /\ (i = Len(yielded) => pc \notin {"normalize", "media"}))
    /\ LET sunk == Sunk IN
       \A i \in DOMAIN sunk :
          /\ Fetched(i) => HasPath(sunk[i]) # HasError(sunk[i])
          /\ ~Fetched(i) => ~HasPath(sunk[i]) /\ ~HasError(sunk[i])

\* download_media returned None for the first record, the second ended in a
\* terminal failure, the third has no media
C9_Witness ==
    /\ Len(Sunk) = 3
    /\ HasPath(Sunk[1]) /\ Sunk[1].media_path = "None"
    /\ HasError(Sunk[2])
    /\ ~IsPlaceholder(Sunk[3]) /\ ~HasPath(Sunk[3]) /\ ~HasError(Sunk[3])

----------------------------------------------------------------------------
(* C7, C8: maybe_rate_sleep *)

\* the number of records whose pacing step has finished
Paced == IF pc = "pace" THEN written - 1 ELSE written

AllPacingPositive ==
    args.sleep_per_msg > 0 /\ args.sleep_every > 0 /\ args.sleep_seconds > 0

\* C7: with the three pacing options positive, after the pacing step of M
\* records there have been exactly M per-record delays and floor(M/N)
\* interval delays, taken in the pacing steps of records N, 2N, 3N, ...
C7_PacingCounts ==
    AllPacingPositive =>
        /\ per_msg_sleeps = Paced
        /\ interval_sleeps =
              [k \in 1..(Paced \div args.sleep_every) |-> k * args.sleep_every]

\* N = 2 and M = 3: three per-record delays, one interval delay after record 2
C7_Witness ==
    /\ pc = "done"
    /\ AllPacingPositive
    /\ args.sleep_every = 2
    /\ written = 3
    /\ per_msg_sleeps = 3
    /\ interval_sleeps = <<2>>

\* the interval delay was taken in the pacing step of record k
TookInterval(k) == k \in Range(interval_sleeps)

\* C8 as stated: the interval delay is taken in the pacing step of a record
\* iff both options are positive and the number of records processed before
\* that record, not counting it, is non-zero and a multiple of N.
C8_PriorCount ==
    (AtRest /\ written > 0) =>
        (TookInterval(written) <=>
            /\ args.sleep_every > 0
            /\ args.sleep_seconds > 0
            /\ written - 1 > 0
            /\ (written - 1) % args.sleep_every = 0)

\* C8 amended: the interval delay is taken in the pacing step of a record iff
\* both options are positive and the number of records processed so far,
\* counting that record, is a multiple of N.
C8_CountIncludesRecord ==
    (AtRest /\ written > 0) =>
        (TookInterval(written) <=>
            /\ args.sleep_every > 0
            /\ args.sleep_seconds > 0
            /\ written % args.sleep_every = 0)

\* N = 2: the delay is taken in the pacing step of record 2, one record
\* having been processed before it
C8_Witness ==
    /\ pc = "iter"
    /\ args.sleep_every = 2
    /\ written = 2
    /\ TookInterval(2)
    /\ ~TookInterval(1)

----------------------------------------------------------------------------
(* C10: the except clause of the loop *)

\* C10: a record whose normalisation raised has, at its position, the entry
\* {id, error} with its id and the error description; the fetcher is never
\* called for it; between records the processed counter equals the number of
\* records yielded, placeholders included; and the run can always take a next
\* step until it is done.
C10_NormalizationIsolated ==
    /\ LET sunk == Sunk IN
       \A i \in DOMAIN sunk :
          yielded[i].raises =>
              sunk[i] = [id |-> Some(yielded[i].id), error |-> Repr(NormalizeError)]
    /\ \A i \in DOMAIN yielded : yielded[i].raises => ~Fetched(i)
    /\ AtRest => written = Len(yielded) /\ Len(Sunk) = Len(yielded)
    /\ pc # "done" => ENABLED Next

\* the first record failed to normalise although it has media; the run went
\* on, downloaded the media of the second and finished
C10_Witness ==
    /\ pc = "done"
    /\ args.media_dir
    /\ Len(yielded) = 3
    /\ yielded[1].raises /\ yielded[1].media
    /\ IsPlaceholder(Output[1])
    /\ HasPath(Output[2])
    /\ written = 3

----------------------------------------------------------------------------
(* C11 - C13: runs that are cut short *)

\* C11: when the iterator raises after yielding k records, all k records are
\* in the durable output, in order, in streaming and in batch mode.
C11_SourceFailureKeepsAll ==
    pc = "failed" =>
        LET out == Output IN
        /\ Len(out) = Len(yielded)
        /\ \A i \in DOMAIN out : out[i].id = Some(yielded[i].id)

\* the number of entries the batch files hold once w records have been counted
Flushed(w) == args.batch_size[1] * (w \div args.batch_size[1])

\* C12: the durable output is always a prefix of the traversal; between
\* records, with k records processed, the stream holds exactly k lines and the
\* batch files exactly B * floor(k/B) entries; after an interrupt at a
\* suspension point the stream lacks at most the record in flight, and the
\* batch files lack only the unflushed batch of fewer than B entries and the
\* record in flight.
C12_DurableUnderInterrupt ==
    LET out == Output IN
    /\ Len(out) <= Len(yielded)
    /\ \A i \in DOMAIN out :
          /\ out[i].id = Some(yielded[i].id)
          /\ IsPlaceholder(out[i]) <=> yielded[i].raises
    /\ (~batching /\ pc \in {"iter", "failed", "done"}) => Len(out) = written
    /\ (batching /\ pc \in {"iter", "failed"}) => Len(out) = Flushed(written)
    /\ (~batching /\ pc \in {"cancelled", "killed"}) =>
          /\ Len(out) >= written
          /\ Len(out) >= Len(yielded) - 1
    /\ (batching /\ pc \in {"cancelled", "killed"}) =>
          /\ Len(out) = Flushed(written)
          /\ Len(batch) < args.batch_size[1]
          /\ Len(yielded) - Len(out) <= Len(batch) + 1

\* What the code keeps of C12: the same, for the interrupts that unwind main()
\* (a cancellation of the task, Ctrl-C); after a signal that ends the process
\* the stream is only known to hold a prefix of the lines written.
C12_DurablePrefix ==
    LET out == Output IN
    /\ Len(out) <= Len(yielded)
    /\ \A i \in DOMAIN out :
          /\ out[i].id = Some(yielded[i].id)
          /\ IsPlaceholder(out[i]) <=> yielded[i].raises
    /\ (~batching /\ pc \in {"iter", "failed", "done"}) => Len(out) = written
    /\ (batching /\ pc \in {"iter", "failed"}) => Len(out) = Flushed(written)
    /\ (~batching /\ pc = "cancelled") =>
          /\ Len(out) >= written
          /\ Len(out) >= Len(yielded) - 1
    /\ (batching /\ pc \in {"cancelled", "killed"}) =>
          /\ Len(out) = Flushed(written)
          /\ Len(batch) < args.batch_size[1]
          /\ Len(yielded) - Len(out) <= Len(batch) + 1
    /\ (~batching /\ pc = "killed") => Len(out) <= written + 1

\* a batch run with B = 2 cancelled during the download for the third record:
\* the first file is intact, nothing else is lost but the third record
C12_Witness ==
    /\ pc = "cancelled"
    /\ batching
    /\ args.batch_size[1] = 2
    /\ Len(yielded) = 3
    /\ written = 2
    /\ calls > 0
    /\ DOMAIN files = {1}
    /\ Len(files[1]) = 2
    /\ batch = <<>>

\* C13: when the login or the resolution of the chat fails, no record has
\* been fetched or counted, the JSONL file has not been opened and no batch
\* file has been written.
C13_FatalStartup ==
    pc = "fatal" =>
        /\ yielded = <<>>
        /\ written = 0
        /\ pbar_n = 0
        /\ ~opened
        /\ f = <<>>
        /\ DOMAIN files = {}
        /\ writes = <<>>

\* the chat could not be resolved in a run that would have streamed
C13_Witness ==
    /\ pc = "fatal"
    /\ ~batching
    /\ chat > 0

----------------------------------------------------------------------------
(* C14: the direction flag *)

Ids(q) == [i \in DOMAIN q |-> q[i].id[1]]

Reverse(q) == [i \in 1..Len(q) |-> q[Len(q) + 1 - i]]

\* the ids a run on the same chat with the same limit and the direction flag
\* the other way puts out: by C2 a run puts out its traversal
OtherDirectionIds == iter_messages(chat, ~args.reverse, args.limit)

\* C14 as stated: whatever the limit, the ids in the output of a finished run
\* are the reverse of the ids in the output of the run on the same chat with
\* the direction flag the other way.
C14_ReversedByFlag ==
    pc = "done" => Ids(Output) = Reverse(OtherDirectionIds)

\* C14 amended: the same, when no limit is configured or the limit is at
\* least the number of messages in the chat.
C14_ReversedByFlagUnlimited ==
    (pc = "done" /\ (args.limit = None \/ args.limit[1] >= chat)) =>
        Ids(Output) = Reverse(OtherDirectionIds)

\* a finished run oldest-first over a chat of three messages, no limit
C14_Witness ==
    /\ pc = "done"
    /\ args.reverse
    /\ args.limit = None
    /\ chat = 3
    /\ Ids(Output) = <<1, 2, 3>>

----------------------------------------------------------------------------
(* C15: the progress bar *)

\* the start-up has computed total
Prepared == pc \notin {"start", "entity", "prepare", "fatal"}

\* C15: with a limit configured and the message count known, the total of the
\* progress bar is the smaller of the two; with neither, there is no total;
\* the count of the bar equals the processed counter, never decreases, grows
\* by one at a time, and equals the number of entries handed to the sink
\* except between handing an entry over and counting it.
C15_Progress ==
    /\ [](/\ (Prepared /\ args.limit # None /\ count_ok) =>
                 total = Some(Min(chat, args.limit[1]))
          /\ (Prepared /\ args.limit = None /\ ~count_ok) => total = None
          /\ pbar_n = written
          /\ LET handed == Len(Sunk)
             IN  IF pc = "count" THEN pbar_n + 1 = handed ELSE pbar_n = handed)
    /\ [][pbar_n' = pbar_n \/ (pbar_n' = pbar_n + 1 /\ pc = "count")]_vars

\* limit 2 on a chat of three messages whose count is known: the total is 2
\* and both records have been counted
C15_Witness ==
    /\ pc = "done"
    /\ args.limit = Some(2)
    /\ chat = 3
    /\ count_ok
    /\ total = Some(2)
    /\ pbar_n = 2

----------------------------------------------------------------------------
(* C16: the sleeps of download_with_retry *)

\* backoff = max(0.0, args.retry_backoff)
InitialBackoff == Max(0, args.retry_backoff)

\* C16: inside the fetcher the k-th backoff sleep lasts the initial backoff
\* (clamped at zero) times 2^(k-1), so a clamped backoff stays zero; there is
\* one backoff sleep per non-throttling failure except the one that exhausts
\* the budget; there is one sleep of wait + 1 per throttling signal; and the
\* current backoff depends on the number of backoff sleeps only, not on the
\* throttling signals.
C16_SleepDurations ==
    InFetch =>
        LET bs == sleeps.backoff
            fs == sleeps.flood
        IN  /\ \A k \in DOMAIN bs : bs[k] = InitialBackoff * 2 ^ (k - 1)
            /\ Len(bs) = Min(errors, Budget)
            /\ Len(fs) = floods
            /\ \A k \in DOMAIN fs : fs[k] \in {e.seconds + 1 : e \in FloodWaitErrors}
            /\ backoff = InitialBackoff * 2 ^ Len(bs)
            /\ args.retry_backoff <= 0 => \A k \in DOMAIN bs : bs[k] = 0

\* two retries and a throttling signal, then the third failure: backoff
\* sleeps of 1.5 s and 3 s, one sleep of wait + 1, none after the last failure
C16_Witness ==
    /\ TerminalFailure
    /\ args.max_retries = 2
    /\ args.retry_backoff = DefaultRetryBackoff
    /\ sleeps = [backoff |-> <<3, 6>>, flood |-> <<3>>]

----------------------------------------------------------------------------
(* C17: one record at a time *)

\* the steps of one iteration of the loop body, in the order of the code
StepsWithFetch == <<"next", "normalize", "fetch", "sink", "count", "pace">>

StepsWithoutFetch == <<"next", "normalize", "sink", "count", "pace">>

IsPrefix(p, q) == Len(p) <= Len(q) /\ \A i \in DOMAIN p : p[i] = q[i]

\* the iteration for the current record has run to the end of its pacing
IterationComplete == steps # <<>> /\ steps[Len(steps)] = "pace"

\* C17: the steps taken for a record are, in this order, normalize, the media
\* fetch if there is one, the hand-over to the sink, the count and the pacing;
\* the fetch step is there exactly when download_with_retry was entered for
\* the record; at most one record is yielded and not yet counted; while a
\* download is under way every earlier record is in the sink and is counted;
\* and the next record is requested from the iterator only when the pacing of
\* the current one has finished.
C17_Sequential ==
    /\ [](/\ IsPrefix(steps, StepsWithFetch) \/ IsPrefix(steps, StepsWithoutFetch)
          /\ (Prepared /\ yielded # <<>> /\ pc \notin {"failed", "cancelled"}) =>
                 ((\E i \in DOMAIN steps : steps[i] = "fetch")
                     <=> yielded[Len(yielded)].id \in Range(fetched))
          /\ Len(yielded) - written \in {0, 1}
          /\ pc = "download" =>
                 /\ Len(Sunk) = Len(yielded) - 1
                 /\ written = Len(yielded) - 1
                 /\ steps = <<"next", "normalize", "fetch">>
          /\ (pc \in {"iter", "done"} /\ yielded # <<>>) => IterationComplete)
    /\ [][Len(yielded') > Len(yielded) =>
              /\ Len(yielded') = Len(yielded) + 1
              /\ yielded = <<>> \/ IterationComplete
              /\ written = Len(yielded)]_vars

\* the second record is requested after the first was fetched, handed over,
\* counted and paced, and its own download is being retried
C17_Witness ==
    /\ pc = "download"
    /\ Len(yielded) = 2
    /\ fetched = <<yielded[1].id, yielded[2].id>>
    /\ errors = 1
    /\ written = 1
    /\ Len(Sunk) = 1

----------------------------------------------------------------------------
(* C18: termination *)

\* C18: when every download receives finitely many throttling signals, every
\* call of download_with_retry returns a path or a failure, and the run
\* reaches its end; at the end the iterator is exhausted, the processed count
\* is the number of records it yielded and all of them are in the output,
\* the last partial batch included.  A throttling signal never makes the
\* call return: a download that is throttled for ever stays in the call.
C18_Termination ==
    /\ (pc = "download") ~> (Success \/ TerminalFailure)
    /\ <>(pc = "done")
    /\ [](pc = "done" =>
              /\ Len(yielded) = Len(it)
              /\ written = Len(it)
              /\ Len(Output) = Len(it))
    /\ [][floods' > floods =>
              /\ pc = "download"
              /\ pc' = "download"
              /\ attempt' = attempt]_vars

\* a finished batch run over three records, each with a download, the last
\* of them successful
C18_Witness ==
    /\ pc = "done"
    /\ batching
    /\ written = 3
    /\ Len(Output) = 3
    /\ Len(fetched) = 3
    /\ HasPath(Output[3])

----------------------------------------------------------------------------
(* C19: batch files *)

\* C19: no batch index is written twice and the files are those of the
\* indices written; a step never changes or removes a file that exists; and a
\* step that writes a file writes the whole in-memory batch, which is not
\* empty, under an index with no file, after which the in-memory batch is a
\* fresh empty list or the run is over.
C19_FlushedOnce ==
    /\ [](/\ \A i, j \in DOMAIN writes : writes[i] = writes[j] => i = j
          /\ DOMAIN files = Range(writes))
    /\ [][\A k \in DOMAIN files : k \in DOMAIN files' /\ files'[k] = files[k]]_vars
    /\ [][files' # files =>
              /\ batch # <<>>
              /\ \E k \in DOMAIN files' \ DOMAIN files :
                    /\ DOMAIN files' = DOMAIN files \cup {k}
                    /\ files'[k] = batch
              /\ batch' = <<>> \/ pc' = "done"]_vars

\* three records with B = 2: a full file and the final partial one
C19_Witness ==
    /\ pc = "done"
    /\ writes = <<1, 2>>
    /\ Len(files[1]) = 2
    /\ Len(files[2]) = 1

----------------------------------------------------------------------------
(* C20: a terminal media failure stays with its record *)

\* C20: every call of download_with_retry starts with attempt 0, the
\* configured initial backoff and nothing slept, whatever happened to earlier
\* records; it keeps its whole budget: it is still retrying with at most R
\* errors and gives up only at R + 1; an entry with media_error is in the
\* sink at the position of its record, with the record's id; and no step
\* changes an entry that is already in the sink.
C20_FailureIsolated ==
    /\ [](LET sunk == Sunk IN
          /\ (pc = "download" /\ calls = 0) =>
                 /\ attempt = 0
                 /\ backoff = InitialBackoff
                 /\ errors = 0
                 /\ sleeps = NoSleeps
          /\ pc = "download" => attempt <= Budget
          /\ TerminalFailure => attempt = Budget + 1
          /\ \A i \in DOMAIN sunk :
                 HasError(sunk[i]) =>
                     /\ sunk[i].id = Some(yielded[i].id)
                     /\ Fetched(i)
                     /\ ~IsPlaceholder(sunk[i]))
    /\ [][<<f, files, batch>>' # <<f, files, batch>> =>
              LET before == Sunk
                  after == Sunk'
              IN  /\ Len(before) <= Len(after)
                  /\ \A i \in DOMAIN before : after[i] = before[i]]_vars

\* R = 2: the first record failed for good and is in the sink with its
\* media_error; the second record then used both retries, with the backoff
\* starting again at 1.5 s, and succeeded
C20_Witness ==
    /\ Success
    /\ args.max_retries = 2
    /\ errors = 2
    /\ sleeps.backoff = <<3, 6>>
    /\ Len(Sunk) = 1
    /\ HasError(Sunk[1])

====
